---- MODULE Spec2Model ----
(***************************************************************************)
(* Model of the browser chat driver of AI-orca-plugin:                     *)
(*   - src/scripts/browser-ai.py    : class BrowserAI and chat(), the      *)
(*     command-line driver ("cli");                                        *)
(*   - src/scripts/python-server.py : PythonExecutorHandler._browser_ai,   *)
(*     the /browser-ai endpoint of the exec server ("srv").                *)
(* Both resolve a ChatGPT tab over the debugging directory endpoint,       *)
(* evaluate scripts in the page (one evaluate = one step of the model)     *)
(* and poll the last assistant message until it has stopped changing.      *)
(* The page and the transport are the environment: every evaluate draws    *)
(* its reply from the replies the evaluated script and the channel can     *)
(* produce.                                                                *)
(***************************************************************************)
EXTENDS Integers, Sequences, FiniteSets, TLC

VARIABLES
    impl,          \* "cli" (browser-ai.py) or "srv" (python-server.py)
    action,        \* srv: data.get('action'); cli: always "chat"
    pc,            \* position of the call in progress
    wait,          \* cli: wait_response
    timeout,       \* timeout argument (seconds)
    tabs,          \* the listing returned by get_tabs()
    target,        \* index in tabs of the selected tab (ws_url / chatgpt_tab), 0 = none
    old_count,     \* pre-send count of assistant messages
    last_text,     \* polling loop: last_text
    last_images,   \* polling loop: last_images (srv only)
    stable_count,  \* polling loop: stable_count
    i,             \* polling loop: number of iterations of the for loop begun
    value,         \* what the last execute_js returned
    inputRes,      \* what execute_js(input_script) returned in this call
    sendRes,       \* what execute_js(send_script) returned in this call
    countRes,      \* what the pre-send count query returned in this call
    evals,         \* number of evaluations of check_script in this call
    prevCounted,   \* the last sample of this call with count > old_count
    runLen,        \* length of the run of identical counted samples ending in prevCounted
    before,        \* the loop's stable_count, last_text, last_images before its last iteration
    result,        \* what the call returned
    calls,         \* number of calls started
    fetched,       \* outcomes of the get_tabs() requests of this call, in order
    jsCalls,       \* number of execute_js calls of this call
    pageCount      \* assistant messages on the page when this call's count query ran

(* One execute_js call seen at the level of its WebSocket *)
VARIABLES
    xpc,           \* position in execute_js
    chans,         \* the connections execute_js has opened, oldest first
    wire,          \* the message ws.recv() returned
    ret,           \* what execute_js returned
    xcalls         \* number of execute_js calls begun

(* The HTTP server and the handlers of its /browser-ai requests *)
VARIABLES
    backlog,       \* connections accepted by the listening socket, not yet handled
    stage,         \* position of the handler of each request
    log,           \* what the handlers did, in order
    nreq           \* number of requests sent by clients

(* The user text of a chat request and the input script built from it *)
VARIABLES
    userText,      \* the user text (message)
    literal        \* the characters put between the quotes of the script's literal

(* The page's last assistant element and the sample check_script takes *)
VARIABLES
    dom,           \* the element
    sampled,       \* the text of the sample
    samples        \* the texts of the samples taken of the element, in order

(* The two polling loops run side by side on the same poll results *)
VARIABLES
    pair           \* the pre-send count, the tick budget, and each loop's locals

driverVars == <<impl, action, pc, wait, timeout, tabs, target, old_count, last_text,
                last_images, stable_count, i, value, inputRes, sendRes, countRes,
                evals, prevCounted, runLen, before, result, calls, fetched, jsCalls,
                pageCount>>
evalVars == <<xpc, chans, wire, ret, xcalls>>
httpVars == <<backlog, stage, log, nreq>>
escVars == <<userText, literal>>
docVars == <<dom, sampled, samples>>
pairVars == <<pair>>
auxVars == <<evalVars, httpVars, escVars, docVars, pairVars>>

vars == <<driverVars, auxVars>>

----------------------------------------------------------------------------
(* Bounds of the model *)

MaxTimeout == 3
MaxCount == 1
MaxTabs == 3
MaxCalls == 2

----------------------------------------------------------------------------
(* Texts are sequences of tokens, so that concatenation is concatenation. *)

EmptyText == <<>>
Texts == {EmptyText, <<"a">>, <<"b">>}

Img1 == [src |-> "u1", alt |-> "x"]
Img2 == [src |-> "u2", alt |-> ""]
ImageLists == {<<>>, <<Img1, Img2>>}

(* JSON values returned by execute_js, tagged by shape.                     *)
(*   none    : None (exception in execute_js, or a reply without            *)
(*             result.result.value)                                         *)
(*   num     : a number (count_script)                                      *)
(*   success : {success: true}       error : {error: "..."}                 *)
(*   msgs    : {user: [...], assistant: [...]}, n = number of assistant     *)
(*   sample  : {count, text, images}                                        *)
(*   str     : a value of none of the shapes above (a bare string)          *)
Val(k, n, t, im) == [kind |-> k, n |-> n, text |-> t, images |-> im]
None == Val("none", 0, EmptyText, <<>>)
Num(n) == Val("num", n, EmptyText, <<>>)
StatusOk == Val("success", 0, EmptyText, <<>>)
StatusErr == Val("error", 0, EmptyText, <<>>)
Msgs(n) == Val("msgs", n, EmptyText, <<>>)
Sample(c, t, im) == Val("sample", c, t, im)
Str == Val("str", 0, EmptyText, <<>>)

(* Python truthiness of a value: None and 0 are falsy, a non-empty dict or *)
(* string is truthy. TruthyAlways: a variant for which nothing is falsy.   *)
TruthyAlways(v) == TRUE
Truthy(v) == v.kind # "none" /\ ~(v.kind = "num" /\ v.n = 0)

Counts == 0..MaxCount

(* Replies an evaluate can give, per script. *)
MsgsReplies == {None, Str} \cup {Msgs(n) : n \in Counts}
CountReplies == {None, Str} \cup {Num(n) : n \in Counts}
StatusReplies == {None, StatusOk, StatusErr}
CliSamples == {Sample(c, t, <<>>) : c \in Counts \cup {MaxCount + 1}, t \in Texts}
SrvSamples == {Sample(c, t, im) : c \in Counts \cup {MaxCount + 1}, t \in Texts, im \in ImageLists}
CheckReplies(d) == {None, Str} \cup (IF d = "cli" THEN CliSamples ELSE SrvSamples)

----------------------------------------------------------------------------
(* Tab listing *)

(* A URL is a sequence of tokens; "p in url" is containment of the token    *)
(* sequence p as a contiguous subsequence.                                  *)
Contains(url, p) ==
    \E k \in 0..(Len(url) - Len(p)) : \A j \in 1..Len(p) : url[k + j] = p[j]

UrlBlank == <<"about:blank">>
UrlBase == <<"https://", "chatgpt.com", "/">>
UrlConv == <<"https://", "chatgpt.com", "/c/", "id">>
UrlGptConv == <<"https://", "chatgpt.com", "/g/x", "/c/", "id">>
UrlOther == <<"https://", "other.com", "/c/", "id">>
Urls == {UrlBlank, UrlBase, UrlConv, UrlGptConv, UrlOther}

Tab(ty, url) == [type |-> ty, url |-> url]
Tabs == {Tab(ty, u) : ty \in {"page", "iframe"}, u \in Urls}

SeqsUpTo(S, n) == UNION {[1..k -> S] : k \in 0..n}
Listings == SeqsUpTo(Tabs, MaxTabs)

(* `"chatgpt.com/c/" in url and t.get("type") == "page"` *)
CliConvMatch(t) == Contains(t.url, <<"chatgpt.com", "/c/">>) /\ t.type = "page"
(* `"chatgpt.com" in t.get("url", "") and t.get("type") == "page"` *)
CliBaseMatch(t) == Contains(t.url, <<"chatgpt.com">>) /\ t.type = "page"

(* First pass: index of the first tab of the conversation pattern, 0 if none *)
CliFirstConv(ts) ==
    IF \E k \in 1..Len(ts) : CliConvMatch(ts[k])
    THEN CHOOSE k \in 1..Len(ts) :
             CliConvMatch(ts[k]) /\ \A j \in 1..(k - 1) : ~CliConvMatch(ts[j])
    ELSE 0

(* Second pass: index of the first tab of the base URL, 0 if none *)
CliFirstBase(ts) ==
    IF \E k \in 1..Len(ts) : CliBaseMatch(ts[k])
    THEN CHOOSE k \in 1..Len(ts) :
             CliBaseMatch(ts[k]) /\ \A j \in 1..(k - 1) : ~CliBaseMatch(ts[j])
    ELSE 0

(* Variant of CliFindTarget without the first pass: the first tab matching *)
(* the base URL                                                            *)
CliFindFirstBase(ts) == CliFirstBase(ts)

(* BrowserAI.connect_chatgpt: two passes, each returning at its first match *)
CliFindTarget(ts) ==
    IF CliFirstConv(ts) # 0 THEN CliFirstConv(ts) ELSE CliFirstBase(ts)

SrvBaseMatch(t) == Contains(t.url, <<"chatgpt.com">>) /\ t.type = "page"
SrvConvBreak(t) == Contains(t.url, <<"/c/">>)

(* The server's single loop: every matching tab overwrites chatgpt_tab and  *)
(* the loop breaks at the first matching tab whose URL holds "/c/".         *)
RECURSIVE SrvScan(_, _, _)
SrvScan(ts, k, cur) ==
    IF k > Len(ts) THEN cur
    ELSE IF SrvBaseMatch(ts[k])
         THEN IF SrvConvBreak(ts[k]) THEN k ELSE SrvScan(ts, k + 1, k)
         ELSE SrvScan(ts, k + 1, cur)

SrvFindTarget(ts) == SrvScan(ts, 1, 0)

----------------------------------------------------------------------------
(* Results *)

Res(o, t, im, why) ==
    [outcome |-> o, text |-> t, images |-> im, reason |-> why, messages |-> 0]
NoResult == Res("None", EmptyText, <<>>, "")

NoBefore == [stable_count |-> 0, last_text |-> EmptyText, last_images |-> <<>>]
NoSample == [some |-> FALSE, text |-> EmptyText, images |-> <<>>]
Seen(t, im) == [some |-> TRUE, text |-> t, images |-> im]

Messages == {<<>>, <<"m">>}

(* `for img in images: img_markdown += f"![{alt}]({src})\n"` *)
RECURSIVE ImgLines(_)
ImgLines(ims) ==
    IF ims = <<>> THEN <<>>
    ELSE <<"![", Head(ims).alt, "](", Head(ims).src, ")\n">> \o ImgLines(Tail(ims))

(* response_text: the text, then "\n\n" and one line per image when the    *)
(* image list is not empty                                                 *)
WithImages(t, ims) == IF ims # <<>> THEN t \o <<"\n\n">> \o ImgLines(ims) ELSE t

(* Variant of TickBudget running one iteration too many *)
TickBudgetOneMore(t) == t * 2 + 1

(* Number of iterations of the polling loop: range(timeout * 2) *)
TickBudget(t) == t * 2

(* Variant of StableThreshold declaring Stable one repeat early *)
StableThresholdEarly == 3 - 1

(* `if stable_count >= 3` *)
StableThreshold == 3

----------------------------------------------------------------------------
(* Initial state: a driver process of either kind, no call begun. *)

DriverInit ==
    /\ impl \in {"cli", "srv"}
    /\ action = "chat"
    /\ pc = "idle"
    /\ wait = TRUE
    /\ timeout = 0
    /\ tabs = <<>>
    /\ target = 0
    /\ old_count = Num(0)
    /\ last_text = EmptyText
    /\ last_images = <<>>
    /\ stable_count = 0
    /\ i = 0
    /\ value = None
    /\ inputRes = None
    /\ sendRes = None
    /\ countRes = None
    /\ evals = 0
    /\ prevCounted = NoSample
    /\ runLen = 0
    /\ before = NoBefore
    /\ result = NoResult
    /\ calls = 0
    /\ fetched = <<>>
    /\ jsCalls = 0
    /\ pageCount = 0

(* No execute_js call begun, no connection opened *)
NoMsg == [kind |-> "none", id |-> 0, has |-> FALSE, value |-> None]
EvalIdle ==
    /\ xpc = "idle" /\ chans = <<>> /\ wire = NoMsg /\ ret = None /\ xcalls = 0

(* The server listening, no request sent *)
HttpIdle ==
    /\ backlog = <<>> /\ stage = <<>> /\ log = <<>> /\ nreq = 0

(* No input script built *)
NotBuilt == [built |-> FALSE, chars |-> <<>>]
EscIdle == userText = <<>> /\ literal = NotBuilt

(* No sample taken *)
NoAttrs == [cls |-> <<>>, href |-> <<>>, src |-> <<>>, alt |-> <<>>]
NoElement == [type |-> 0, tag |-> "", text |-> <<>>, kids |-> <<>>, attrs |-> NoAttrs]
NotSampled == [taken |-> FALSE, text |-> <<>>]
DocIdle == dom = NoElement /\ sampled = NotSampled /\ samples = <<>>

(* No pair of loops running *)
NoLoop == [pc |-> "idle", i |-> 0, last_text |-> EmptyText, last_images |-> <<>>,
           stable_count |-> 0, result |-> NoResult]
PairIdle == pair = [on |-> FALSE, old |-> 0, budget |-> 0, cli |-> NoLoop, srv |-> NoLoop]

Init == DriverInit /\ EvalIdle /\ HttpIdle /\ EscIdle /\ DocIdle /\ PairIdle

pollVars == <<last_text, last_images, stable_count, i>>
histVars == <<inputRes, sendRes, countRes, evals, prevCounted, runLen, before>>
callVars == <<fetched, jsCalls, pageCount>>

(* One more execute_js call has been made in this call. *)
Evaluated == jsCalls' = jsCalls + 1 /\ UNCHANGED <<fetched, pageCount>>

(* The count query, made while the page holds n assistant messages: a      *)
(* reply that carries a count carries n; a failed evaluation carries none. *)
CountQuery(n, v) ==
    /\ jsCalls' = jsCalls + 1
    /\ pageCount' = n
    /\ v.kind \in {"num", "msgs"} => v.n = n
    /\ UNCHANGED fetched

(* A call is made: chat(message) of the cli, a POST /browser-ai of the srv. *)
Start ==
    /\ pc = "idle"
    /\ calls < MaxCalls
    /\ calls' = calls + 1
    /\ pc' = "resolving"
    /\ \E a \in (IF impl = "srv" THEN {"chat", "get_messages"} ELSE {"chat"}) :
           action' = a
    /\ \E w \in (IF impl = "cli" THEN BOOLEAN ELSE {TRUE}) : wait' = w
    /\ \E t \in 0..MaxTimeout : timeout' = t
    /\ UNCHANGED auxVars
    /\ UNCHANGED <<impl, tabs, target, old_count, pollVars, value, histVars, result,
                   callVars>>

(* The call is over: the caller has the result, and what the observer     *)
(* recorded about the call starts afresh. The handler's variables keep    *)
(* their last values until the next call assigns them.                    *)
Return ==
    /\ pc = "done"
    /\ pc' = "idle"
    /\ action' = "chat" /\ wait' = TRUE /\ timeout' = 0
    /\ tabs' = <<>> /\ target' = 0
    /\ result' = NoResult
    /\ value' = None
    /\ inputRes' = None /\ sendRes' = None /\ countRes' = None
    /\ evals' = 0 /\ prevCounted' = NoSample /\ runLen' = 0 /\ before' = NoBefore
    /\ fetched' = <<>> /\ jsCalls' = 0 /\ pageCount' = 0
    /\ UNCHANGED auxVars
    /\ UNCHANGED <<impl, old_count, pollVars, calls>>

(* Variant of Finish after which the call begins again *)
FinishRestarts(r) == pc' = "resolving" /\ result' = r

(* `return`, `self._send_json(...)`: the call ends with its result *)
Finish(r) == pc' = "done" /\ result' = r

(* get_tabs(): the listing the directory endpoint answers, [] when the   *)
(* request or the decoding of its answer raises                          *)
FetchOutcomes == {"ok", "error"}
GetTabs(f, listing) == IF f = "ok" THEN listing ELSE <<>>

(* Variant of CliNotConnected that goes on without a tab *)
CliNeverFails(t) == FALSE

(* chat(): `if not ai.connect_chatgpt()` *)
CliNotConnected(t) == t = 0

(* _browser_ai: `if not chatgpt_tab` *)
SrvNoTab(t) == t = 0

(* chat(): connect_chatgpt() on the listing; no tab -> error result *)
CliResolve(L) ==
    /\ impl = "cli" /\ pc = "resolving"
    /\ \E f \in FetchOutcomes, l \in L :
        LET listing == GetTabs(f, l) IN
         /\ fetched' = Append(fetched, f)
         /\ tabs' = listing
         /\ target' = CliFindTarget(listing)
         /\ IF CliNotConnected(CliFindTarget(listing))
            THEN Finish(Res("Failed", EmptyText, <<>>, "target not found"))
            ELSE pc' = "count" /\ UNCHANGED result
    /\ UNCHANGED auxVars
    /\ UNCHANGED <<impl, action, wait, timeout, old_count, pollVars, value,
                   histVars, calls, jsCalls, pageCount>>

(* _browser_ai: tab scan; no tab -> error; then dispatch on the action. *)
(* The emptiness of the message is drawn here, where it is first read.  *)
SrvResolve(L) ==
    /\ impl = "srv" /\ pc = "resolving"
    /\ \E f \in FetchOutcomes, l \in L, message \in Messages :
        LET listing == GetTabs(f, l) IN
         /\ fetched' = Append(fetched, f)
         /\ tabs' = listing
         /\ target' = SrvFindTarget(listing)
         /\ IF SrvNoTab(SrvFindTarget(listing))
            THEN Finish(Res("Failed", EmptyText, <<>>, "target not found"))
            ELSE IF action = "get_messages"
            THEN pc' = "getmsgs" /\ UNCHANGED result
            ELSE IF message = <<>>
            THEN Finish(Res("Failed", EmptyText, <<>>, "Missing message"))
            ELSE pc' = "count" /\ UNCHANGED result
    /\ UNCHANGED auxVars
    /\ UNCHANGED <<impl, action, wait, timeout, old_count, pollVars, value,
                   histVars, calls, jsCalls, pageCount>>

(* An exception raised in the handler: the cli lets it escape the call, the *)
(* srv catches it and answers 500 with ok = False.                         *)
Faulted(d) ==
    IF d = "cli" THEN Res("Fault", EmptyText, <<>>, "uncaught exception")
    ELSE Res("Failed", EmptyText, <<>>, "exception")

(* srv, action get_messages: `execute_js(ws_url, script) or {empty lists}` *)
SrvGetMessages ==
    /\ impl = "srv" /\ pc = "getmsgs"
    /\ Evaluated
    /\ \E v \in MsgsReplies :
         /\ value' = v
         /\ Finish([Res("Messages", EmptyText, <<>>, "") EXCEPT
                       !.messages = IF Truthy(v) THEN v.n ELSE 0])
    /\ UNCHANGED auxVars
    /\ UNCHANGED <<impl, action, wait, timeout, tabs, target, old_count, pollVars,
                   histVars, calls>>

(* cli: msgs = self.get_messages(); old_count = len(msgs.get("assistant", [])) *)
(* where get_messages is `self.execute_js(script) or {empty lists}`           *)
CliCount ==
    /\ impl = "cli" /\ pc = "count"
    /\ \E v \in MsgsReplies, n \in Counts :
         /\ CountQuery(n, v)
         /\ value' = v /\ countRes' = v
         /\ IF ~Truthy(v)
            THEN old_count' = Num(0) /\ pc' = "submit" /\ UNCHANGED result
            ELSE IF v.kind = "msgs"
            THEN old_count' = Num(v.n) /\ pc' = "submit" /\ UNCHANGED result
            ELSE Finish(Faulted("cli")) /\ UNCHANGED old_count
    /\ UNCHANGED auxVars
    /\ UNCHANGED <<impl, action, wait, timeout, tabs, target, pollVars,
                   inputRes, sendRes, evals, prevCounted, runLen, before, calls>>

(* srv: old_count = execute_js(ws_url, count_script) or 0 *)
SrvCount ==
    /\ impl = "srv" /\ pc = "count"
    /\ \E v \in CountReplies, n \in Counts :
         /\ CountQuery(n, v)
         /\ value' = v /\ countRes' = v
         /\ old_count' = IF Truthy(v) THEN v ELSE Num(0)
    /\ pc' = "submit"
    /\ UNCHANGED auxVars
    /\ UNCHANGED <<impl, action, wait, timeout, tabs, target, pollVars,
                   inputRes, sendRes, evals, prevCounted, runLen, before, result, calls>>

(* Variant of CliStepFails that goes on whatever the reply *)
CliStepNeverFails(v) == FALSE

(* cli: `if not self.execute_js(script): return {"error": ...}` *)
CliStepFails(v) == ~Truthy(v)

(* cli: the input script; a falsy reply ends the call *)
CliSubmit ==
    /\ impl = "cli" /\ pc = "submit"
    /\ Evaluated
    /\ \E v \in StatusReplies :
         /\ value' = v /\ inputRes' = v
         /\ IF CliStepFails(v)
            THEN Finish(Res("Failed", EmptyText, <<>>, "input failed"))
            ELSE pc' = "send" /\ UNCHANGED result
    /\ UNCHANGED auxVars
    /\ UNCHANGED <<impl, action, wait, timeout, tabs, target, old_count, pollVars,
                   sendRes, countRes, evals, prevCounted, runLen, before, calls>>

(* srv: execute_js(ws_url, input_script), the reply is not read *)
SrvSubmit ==
    /\ impl = "srv" /\ pc = "submit"
    /\ Evaluated
    /\ \E v \in StatusReplies : value' = v /\ inputRes' = v
    /\ pc' = "send"
    /\ UNCHANGED auxVars
    /\ UNCHANGED <<impl, action, wait, timeout, tabs, target, old_count, pollVars,
                   sendRes, countRes, evals, prevCounted, runLen, before, result, calls>>

(* Variant of ReturnsAfterSend that never waits for the reply *)
ReturnsAlways(w) == TRUE

(* cli: `if not wait_response: return {"success": True, "message": ...}` *)
ReturnsAfterSend(w) == ~w

(* Variant of LoopStart that keeps what the loop's variables hold *)
LoopStartKept ==
    [last_text |-> last_text, last_images |-> last_images, stable_count |-> stable_count]

(* `last_text = ""`, `last_images = []` (srv), `stable_count = 0` before    *)
(* the loop                                                                 *)
LoopStart == [last_text |-> EmptyText, last_images |-> <<>>, stable_count |-> 0]

(* cli: the send script; a falsy reply ends the call; without wait_response *)
(* the call returns; else the polling loop is entered with its locals reset *)
CliSend ==
    /\ impl = "cli" /\ pc = "send"
    /\ Evaluated
    /\ \E v \in StatusReplies :
         /\ value' = v /\ sendRes' = v
         /\ IF CliStepFails(v)
            THEN Finish(Res("Failed", EmptyText, <<>>, "send failed"))
                 /\ UNCHANGED pollVars
            ELSE IF ReturnsAfterSend(wait)
            THEN Finish(Res("Sent", EmptyText, <<>>, "")) /\ UNCHANGED pollVars
            ELSE /\ pc' = "poll"
                 /\ last_text' = LoopStart.last_text
                 /\ stable_count' = LoopStart.stable_count
                 /\ i' = 0
                 /\ UNCHANGED <<last_images, result>>
    /\ UNCHANGED auxVars
    /\ UNCHANGED <<impl, action, wait, timeout, tabs, target, old_count,
                   inputRes, countRes, evals, prevCounted, runLen, before, calls>>

(* srv: execute_js(ws_url, send_script), the reply is not read; the polling *)
(* loop is entered with its locals reset                                    *)
SrvSend ==
    /\ impl = "srv" /\ pc = "send"
    /\ Evaluated
    /\ \E v \in StatusReplies : value' = v /\ sendRes' = v
    /\ pc' = "poll"
    /\ last_text' = LoopStart.last_text
    /\ last_images' = LoopStart.last_images
    /\ stable_count' = LoopStart.stable_count
    /\ i' = 0
    /\ UNCHANGED auxVars
    /\ UNCHANGED <<impl, action, wait, timeout, tabs, target, old_count,
                   inputRes, countRes, evals, prevCounted, runLen, before, result, calls>>

----------------------------------------------------------------------------
(* The polling loop *)

(* Variant of SkipsTick in which a failed evaluation is not skipped *)
SkipsNoTick(v) == FALSE

(* `if not value: continue` *)
SkipsTick(v) == ~Truthy(v)

(* Variant of Counted for which every sample is of the new reply *)
CountedAlways(new_count, old) == TRUE

(* negation of `if new_count <= old_count: continue` *)
Counted(new_count, old) == new_count > old

(* Variant of TextStable that takes an empty text for a repeat too *)
TextRepeats(cur, last) == cur = last

(* `current_text == last_text and current_text` *)
TextStable(cur, last) == cur = last /\ cur # EmptyText

(* Variant of Bump that counts a repeat twice *)
BumpTwice(n) == n + 2

(* `stable_count += 1` *)
Bump(n) == n + 1

(* Variant of ImagesStable that does not compare the image lists *)
ImagesIgnored(cur, last) == TRUE

(* `images_stable = (current_images == last_images)` *)
ImagesStable(cur, last) == cur = last

(* The observer's record of the samples of the new reply, kept beside the   *)
(* loop's own variables: a sample is of the new reply when its count is     *)
(* above the pre-send count.                                                *)
IsNewReply(v) == v.kind = "sample" /\ old_count.kind = "num" /\ v.n > old_count.n

Observe(v) ==
    /\ evals' = evals + 1
    /\ before' = [stable_count |-> stable_count, last_text |-> last_text,
                  last_images |-> last_images]
    /\ IF IsNewReply(v)
       THEN /\ prevCounted' = Seen(v.text, v.images)
            /\ runLen' = IF prevCounted = Seen(v.text, v.images) THEN runLen + 1 ELSE 1
       ELSE UNCHANGED <<prevCounted, runLen>>

(* srv: one iteration of `for i in range(timeout * 2)` *)
SrvPollTick ==
    /\ impl = "srv" /\ pc = "poll"
    /\ i < TickBudget(timeout)
    /\ Evaluated
    /\ \E v \in CheckReplies("srv") :
         /\ value' = v
         /\ i' = i + 1
         /\ Observe(v)
         /\ IF SkipsTick(v)
            THEN UNCHANGED <<pc, result, last_text, last_images, stable_count>>
            ELSE IF v.kind # "sample" \/ old_count.kind # "num"
            THEN Finish(Faulted("srv"))
                 /\ UNCHANGED <<last_text, last_images, stable_count>>
            ELSE IF ~Counted(v.n, old_count.n)
            THEN UNCHANGED <<pc, result, last_text, last_images, stable_count>>
            ELSE IF TextStable(v.text, last_text) /\ ImagesStable(v.images, last_images)
            THEN /\ stable_count' = Bump(stable_count)
                 /\ UNCHANGED <<last_text, last_images>>
                 /\ IF Bump(stable_count) >= StableThreshold
                    THEN Finish(Res("Success", WithImages(v.text, v.images),
                                    v.images, ""))
                    ELSE UNCHANGED <<pc, result>>
            ELSE /\ stable_count' = 0
                 /\ last_text' = v.text
                 /\ last_images' = v.images
                 /\ UNCHANGED <<pc, result>>
    /\ UNCHANGED auxVars
    /\ UNCHANGED <<impl, action, wait, timeout, tabs, target, old_count,
                   inputRes, sendRes, countRes, calls>>

(* Variant of SrvTimeoutResult that drops the partial sample *)
SrvTimeoutNoPartial(t, ims) == Res("Timeout", EmptyText, <<>>, "timeout")

(* srv: what the handler answers when the loop has run out *)
SrvTimeoutResult(t, ims) == Res("Timeout", WithImages(t, ims), ims, "timeout")

(* srv: the loop has run out *)
SrvPollTimeout ==
    /\ impl = "srv" /\ pc = "poll"
    /\ i >= TickBudget(timeout)
    /\ Finish(SrvTimeoutResult(last_text, last_images))
    /\ UNCHANGED auxVars
    /\ UNCHANGED <<impl, action, wait, timeout, tabs, target, old_count, pollVars,
                   value, histVars, calls, callVars>>

(* cli: one iteration of `for i in range(timeout * 2)`; the sample has no   *)
(* image list                                                               *)
CliPollTick ==
    /\ impl = "cli" /\ pc = "poll"
    /\ i < TickBudget(timeout)
    /\ Evaluated
    /\ \E v \in CheckReplies("cli") :
         /\ value' = v
         /\ i' = i + 1
         /\ Observe(v)
         /\ IF SkipsTick(v)
            THEN UNCHANGED <<pc, result, last_text, stable_count>>
            ELSE IF v.kind # "sample" \/ old_count.kind # "num"
            THEN Finish(Faulted("cli")) /\ UNCHANGED <<last_text, stable_count>>
            ELSE IF ~Counted(v.n, old_count.n)
            THEN UNCHANGED <<pc, result, last_text, stable_count>>
            ELSE IF TextStable(v.text, last_text)
            THEN /\ stable_count' = Bump(stable_count)
                 /\ UNCHANGED last_text
                 /\ IF Bump(stable_count) >= StableThreshold
                    THEN Finish(Res("Success", v.text, <<>>, ""))
                    ELSE UNCHANGED <<pc, result>>
            ELSE /\ stable_count' = 0
                 /\ last_text' = v.text
                 /\ UNCHANGED <<pc, result>>
    /\ UNCHANGED auxVars
    /\ UNCHANGED <<impl, action, wait, timeout, tabs, target, old_count, last_images,
                   inputRes, sendRes, countRes, calls>>

(* cli: `return {"error": ..., "partial": last_text}` *)
CliTimeoutResult(t) == Res("Timeout", t, <<>>, "timeout")

(* cli: the loop has run out *)
CliPollTimeout ==
    /\ impl = "cli" /\ pc = "poll"
    /\ i >= TickBudget(timeout)
    /\ Finish(CliTimeoutResult(last_text))
    /\ UNCHANGED auxVars
    /\ UNCHANGED <<impl, action, wait, timeout, tabs, target, old_count, pollVars,
                   value, histVars, calls, callVars>>

----------------------------------------------------------------------------
(* Specifications *)

(* Listings the driver specification draws from; get_tabs() answers [] when *)
(* the directory endpoint cannot be reached.                                *)
DriverListings ==
    {<<>>,
     <<Tab("iframe", UrlConv), Tab("page", UrlOther)>>,
     <<Tab("page", UrlBase), Tab("page", UrlConv)>>}

Step ==
    \/ CliResolve(DriverListings)
    \/ SrvResolve(DriverListings)
    \/ SrvGetMessages
    \/ CliCount
    \/ SrvCount
    \/ CliSubmit
    \/ SrvSubmit
    \/ CliSend
    \/ SrvSend
    \/ CliPollTick
    \/ SrvPollTick
    \/ CliPollTimeout
    \/ SrvPollTimeout

Next == Start \/ Step \/ Return

Spec == Init /\ [][Next]_vars

(* A call in progress runs on: the handler is straight-line code whose only *)
(* waits are sleeps and socket operations with a timeout.                   *)
FairSpec == Spec /\ WF_vars(Step)

(* The tab lookup alone, over every listing of up to MaxTabs tabs: one    *)
(* call of either driver, up to the end of its Resolving step.            *)
TabsStart ==
    /\ pc = "idle" /\ calls = 0
    /\ calls' = 1
    /\ pc' = "resolving"
    /\ \E a \in (IF impl = "srv" THEN {"chat", "get_messages"} ELSE {"chat"}) :
           action' = a
    /\ UNCHANGED auxVars
    /\ UNCHANGED <<impl, wait, timeout, tabs, target, old_count, pollVars, value,
                   histVars, result, callVars>>

TabsNext ==
    \/ TabsStart
    \/ CliResolve(Listings)
    \/ SrvResolve(Listings)

TabsSpec == Init /\ [][TabsNext]_vars

----------------------------------------------------------------------------
(* Properties of the polling loop *)

(* C1: Stable (a Success result) is declared at the tick whose sample is    *)
(* the third repeat of a non-empty counted sample, that is when the run of  *)
(* identical counted samples (same text, same image list) reaches the       *)
(* baseline sample plus three repeats, and in no state before that.         *)
C1_StableAtThirdRepeat ==
    (result.outcome = "Success")
        <=> (runLen = 4 /\ prevCounted.some /\ prevCounted.text # EmptyText)

C1_Witness ==
    /\ pc = "done" /\ impl = "srv" /\ result.outcome = "Success"
    /\ runLen = 4 /\ prevCounted.images # <<>>
    /\ evals > 4

(* C2: a Timeout result carries the text and the image list of the last     *)
(* sample whose count exceeded the pre-send count (the srv appends the      *)
(* images' lines to the text); without such a sample the partial text is    *)
(* empty and the result is not a Success.                                   *)
C2_TimeoutCarriesLastSample ==
    /\ (pc = "done" /\ result.outcome = "Timeout") =>
          /\ Len(result.text) >= Len(prevCounted.text)
          /\ SubSeq(result.text, 1, Len(prevCounted.text)) = prevCounted.text
          /\ result.images = prevCounted.images
          /\ (prevCounted.images = <<>> => result.text = prevCounted.text)
          /\ (~prevCounted.some => result.text = EmptyText)
    /\ (pc = "done" /\ ~prevCounted.some) => result.outcome # "Success"

C2_Witness ==
    /\ pc = "done" /\ result.outcome = "Timeout" /\ impl = "srv"
    /\ prevCounted.some /\ prevCounted.text # EmptyText /\ prevCounted.images # <<>>
    /\ runLen = 1 /\ before.last_text # EmptyText

(* C3: when the input script or the send script answers its element-not-    *)
(* found object, the call never enters the polling loop and never returns   *)
(* Success or Timeout.                                                      *)
C3_ElementNotFoundIsTerminal ==
    (inputRes = StatusErr \/ sendRes = StatusErr) =>
        /\ pc # "poll"
        /\ result.outcome \notin {"Success", "Timeout"}

(* C4: a failed evaluate (None) is never treated as an empty result: after  *)
(* a failed pre-send count query the driver does not go on with a pre-send  *)
(* count of 0, and a failed get_messages does not answer with no messages.  *)
C4_ErrorIsNoInformation ==
    /\ (countRes = None /\ pc \in {"submit", "send", "poll"}) => old_count # Num(0)
    /\ (pc = "done" /\ action = "get_messages" /\ value = None) =>
           result.outcome # "Messages"

(* C5: a poll tick whose evaluation fails leaves the driver in the polling  *)
(* loop with the tick consumed, and when polling ends right after a failed  *)
(* evaluation it ends by exhaustion of the tick budget (Timeout).           *)
C5_FailedTickKeepsPolling ==
    [][ /\ (pc = "poll" /\ evals' = evals + 1 /\ value' = None) =>
              (pc' = "poll" /\ i' = i + 1 /\ result' = result)
        /\ (pc = "poll" /\ pc' # "poll" /\ value' = None) =>
              (result'.outcome = "Timeout" /\ i = 2 * timeout) ]_vars

C5_Witness ==
    /\ pc = "poll" /\ value = None /\ evals > 0
    /\ i < 2 * timeout
    /\ stable_count = 2

(* C6: at most 2 * timeout evaluations of the extraction script are made;   *)
(* while polling, another tick is taken exactly when fewer than 2 * timeout *)
(* have been made and the timeout is declared exactly when all of them have *)
(* been made; a Timeout result comes after all the ticks, none of which     *)
(* completed three repeats; a third repeat yields Success, on the last tick *)
(* as on any other.                                                         *)
C6_TickBudget ==
    /\ evals <= 2 * timeout
    /\ (result.outcome = "Timeout") =>
          (evals = 2 * timeout /\ ~(runLen = 4 /\ prevCounted.text # EmptyText))
    /\ (pc = "poll") =>
          /\ (ENABLED (CliPollTick \/ SrvPollTick)) <=> (evals < 2 * timeout)
          /\ (ENABLED (CliPollTimeout \/ SrvPollTimeout)) <=> (evals = 2 * timeout)
    /\ (runLen = 4 /\ prevCounted.text # EmptyText) => result.outcome = "Success"

C6_Witness ==
    /\ pc = "done" /\ result.outcome = "Success"
    /\ evals = 2 * timeout

(* C8: a counted sample that differs from the previous counted sample of    *)
(* the call in text or in image list resets stable_count to 0 and becomes   *)
(* the baseline, and polling goes on.                                       *)
C8_ChangeResetsCounter ==
    [][ (/\ pc = "poll" /\ evals' = evals + 1
         /\ value'.kind = "sample" /\ old_count.kind = "num"
         /\ value'.n > old_count.n
         /\ prevCounted # Seen(value'.text, value'.images))
        => (/\ stable_count' = 0
            /\ last_text' = value'.text
            /\ (impl = "srv" => last_images' = value'.images)
            /\ pc' = "poll") ]_vars

(* an image-list change after the text has repeated twice *)
C8_Witness ==
    /\ pc = "poll" /\ impl = "srv"
    /\ before.stable_count = 2
    /\ value.kind = "sample" /\ old_count.kind = "num" /\ value.n > old_count.n
    /\ value.text = before.last_text
    /\ value.images # before.last_images
    /\ stable_count = 0 /\ last_images = value.images

InProgress == pc \notin {"idle", "done"}

Rank ==
    CASE pc = "resolving" -> 2 * timeout + 5
      [] pc \in {"count", "getmsgs"} -> 2 * timeout + 4
      [] pc = "submit" -> 2 * timeout + 3
      [] pc = "send" -> 2 * timeout + 2
      [] pc = "poll" -> 2 * timeout - i + 1
      [] OTHER -> 0

----------------------------------------------------------------------------
(* Properties of the tab lookup *)

(* A page tab of the application. *)
BaseTab(t) == t.type = "page" /\ Contains(t.url, <<"chatgpt.com">>)

(* A page tab of the application whose URL has a conversation segment, as   *)
(* each driver recognises it: "chatgpt.com/c/" for the cli, "chatgpt.com"   *)
(* and "/c/" for the srv.                                                   *)
ConvTab(d, t) ==
    /\ BaseTab(t)
    /\ IF d = "cli" THEN Contains(t.url, <<"chatgpt.com", "/c/">>)
       ELSE Contains(t.url, <<"/c/">>)

Resolved == pc \in {"count", "getmsgs", "done"} /\ tabs # <<>>

C10_FirstMatchWins ==
    Resolved =>
        IF \E k \in 1..Len(tabs) : ConvTab(impl, tabs[k])
        THEN /\ target \in 1..Len(tabs) /\ ConvTab(impl, tabs[target])
             /\ \A j \in 1..(target - 1) : ~ConvTab(impl, tabs[j])
        ELSE IF \E k \in 1..Len(tabs) : BaseTab(tabs[k])
        THEN /\ target \in 1..Len(tabs) /\ BaseTab(tabs[target])
             /\ \A j \in 1..(target - 1) : ~BaseTab(tabs[j])
        ELSE TRUE

----------------------------------------------------------------------------
(* Properties of the steps before the polling loop *)

NoTabMatches == \A k \in 1..Len(tabs) : ~BaseTab(tabs[k])

(* C11: when no tab of the listing is a page tab of the application, also   *)
(* when the listing request failed, the call ends at once with the          *)
(* target-not-found error: the listing was requested once, never again,     *)
(* and no script was evaluated.                                             *)
C11_NoTargetFailsAtOnce ==
    /\ Len(fetched) <= 1
    /\ (pc \notin {"idle", "resolving"} /\ NoTabMatches) =>
          /\ pc = "done"
          /\ result = Res("Failed", EmptyText, <<>>, "target not found")
          /\ Len(fetched) = 1
          /\ jsCalls = 0 /\ evals = 0
          /\ value = None /\ countRes = None /\ inputRes = None /\ sendRes = None
          /\ ~ENABLED Step

C11_Witness ==
    /\ pc = "done" /\ fetched = <<"error">> /\ tabs = <<>>
    /\ result.outcome = "Failed" /\ result.reason = "target not found"
    /\ jsCalls = 0

(* C12: when the evaluation of the input script or of the send script       *)
(* fails (execute_js returns None), the call ends there in Failed: no       *)
(* later script is evaluated, the polling loop is not entered and the       *)
(* call returns neither Success nor Timeout.                                *)
C12_FailedStepIsTerminal ==
    /\ (jsCalls >= 2 /\ action = "chat" /\ inputRes = None) =>
          (pc = "done" /\ result.outcome = "Failed" /\ jsCalls = 2 /\ evals = 0)
    /\ (jsCalls >= 3 /\ action = "chat" /\ sendRes = None) =>
          (pc = "done" /\ result.outcome = "Failed" /\ jsCalls = 3 /\ evals = 0)

(* C15: a call never ends by an exception escaping it, whatever the         *)
(* evaluations reply, a value of unexpected shape included: when it is      *)
(* over it has returned a result.                                           *)
C15_NoUncaughtFault ==
    /\ result.outcome # "Fault"
    /\ pc = "done" =>
          result.outcome \in {"Success", "Timeout", "Failed", "Sent", "Messages"}

(* C16, as stated: an evaluation that returned None for want of             *)
(* result.result.value never makes the call fail, at any step.              *)
C16_MissingValueNeverFails ==
    (jsCalls > 0 /\ value = None) => result.outcome # "Failed"

(* C16, amended: None from an evaluation makes no step raise; in the count  *)
(* query and in the polling loop, and at every step of the srv, the call    *)
(* goes on as with no result; in the cli's input and send steps it ends     *)
(* the call with the step's error.                                          *)
C16_MissingValueFailsCliSteps ==
    /\ (jsCalls > 0 /\ value = None) =>
          /\ result.outcome # "Fault"
          /\ result.outcome = "Failed" =>
                /\ impl = "cli" /\ pc = "done" /\ evals = 0
                /\ \/ jsCalls = 2 /\ result.reason = "input failed"
                   \/ jsCalls = 3 /\ result.reason = "send failed"
    /\ (impl = "cli" /\ jsCalls \in {2, 3} /\ evals = 0 /\ value = None) =>
          (pc = "done" /\ result.outcome = "Failed")
    /\ (jsCalls = 1 /\ action = "chat" /\ value = None) =>
          (pc = "submit" /\ old_count = Num(0))

C16_Witness ==
    /\ impl = "cli" /\ pc = "done" /\ jsCalls = 3 /\ value = None
    /\ inputRes = StatusOk
    /\ result.outcome = "Failed" /\ result.reason = "send failed"

----------------------------------------------------------------------------
(* execute_js at the level of its WebSocket: connect, send one command,     *)
(* receive one message, close, pick the value out of the message. The      *)
(* browser end of the socket is the environment.                            *)

MaxEvalCalls == 2

(* `cmd = {"id": 1, ...}` *)
RequestId == 1

(* ids a message on the socket can carry: the command's and another one *)
WireIds == {RequestId, RequestId + 1}
WireValues == {Num(0), Num(1), StatusOk, Str}

(* What ws.recv() can return:                                               *)
(*   reply     : {"id": n, "result": {"result": {..., "value": v}}}, or the  *)
(*               same without "value" (has = FALSE)                          *)
(*   error     : {"id": n, "error": {...}}                                   *)
(*   event     : {"method": ..., "params": ...}, no id                       *)
(*   nonobject : JSON that is not an object                                  *)
(*   malformed : text that is not JSON                                       *)
Reply(n, v) == [kind |-> "reply", id |-> n, has |-> TRUE, value |-> v]
ReplyNoValue(n) == [kind |-> "reply", id |-> n, has |-> FALSE, value |-> None]
ErrorReply(n) == [kind |-> "error", id |-> n, has |-> FALSE, value |-> None]
Event == [kind |-> "event", id |-> 0, has |-> FALSE, value |-> None]
NonObject == [kind |-> "nonobject", id |-> 0, has |-> FALSE, value |-> None]
Malformed == [kind |-> "malformed", id |-> 0, has |-> FALSE, value |-> None]

WireMessages ==
    {Reply(n, v) : n \in WireIds, v \in WireValues}
        \cup {ReplyNoValue(n) : n \in WireIds}
        \cup {ErrorReply(n) : n \in WireIds}
        \cup {Event, NonObject, Malformed}

(* json.loads(...) raises on text that is not JSON *)
LoadsRaises(m) == m.kind = "malformed"

(* `.get` on a value that is not a dict raises AttributeError *)
ExtractRaises(m) == m.kind = "nonobject"

(* `result.get("result", {}).get("result", {}).get("value")` *)
Extract(m) == IF m.has THEN m.value ELSE None

Channel(st, ids, by) == [state |-> st, sent |-> ids, closedBy |-> by]

(* The last connection opened, and the connections with it replaced by c *)
LastChan == chans[Len(chans)]
SetLast(c) == [chans EXCEPT ![Len(chans)] = c]

(* A connection execute_js leaves without calling close(): it stays open    *)
(* until the interpreter reclaims the socket object, which may or may not   *)
(* have happened when the call returns.                                     *)
DroppedStates == {"open", "closed"}

(* `except Exception as e: ...; return None` with the connection st *)
Raised(st) ==
    /\ ret' = None
    /\ xpc' = "returned"
    /\ chans' = IF chans = <<>> \/ LastChan.state = "closed" THEN chans
                ELSE SetLast(Channel(st, LastChan.sent,
                                     IF st = "closed" THEN "collector" ELSE ""))

(* execute_js is called; the cli returns None at once without a ws_url *)
XCall ==
    /\ xpc \in {"idle", "returned"}
    /\ xcalls < MaxEvalCalls
    /\ xcalls' = xcalls + 1
    /\ wire' = NoMsg
    /\ ret' = None
    /\ \E url \in (IF impl = "cli" THEN BOOLEAN ELSE {TRUE}) :
           xpc' = IF url THEN "connect" ELSE "returned"
    /\ UNCHANGED <<chans, driverVars, pairVars, httpVars, escVars, docVars>>

(* websocket.create_connection(ws_url, timeout=10) *)
XConnect ==
    /\ xpc = "connect"
    /\ \/ /\ chans' = Append(chans, Channel("open", <<>>, ""))
          /\ xpc' = "send"
          /\ UNCHANGED ret
       \/ /\ ret' = None /\ xpc' = "returned"
          /\ UNCHANGED chans
    /\ UNCHANGED <<wire, xcalls, driverVars, pairVars, httpVars, escVars, docVars>>

(* ws.send(json.dumps(cmd)) *)
XSend ==
    /\ xpc = "send"
    /\ \/ /\ chans' = SetLast(Channel("open", Append(LastChan.sent, RequestId), ""))
          /\ xpc' = "recv"
          /\ UNCHANGED ret
       \/ \E st \in DroppedStates : Raised(st)
    /\ UNCHANGED <<wire, xcalls, driverVars, pairVars, httpVars, escVars, docVars>>

(* result = json.loads(ws.recv()): the first message on the socket, or an   *)
(* exception (receive timeout, connection lost, text that is not JSON)      *)
XRecv ==
    /\ xpc = "recv"
    /\ \/ \E m \in WireMessages :
            /\ wire' = m
            /\ IF LoadsRaises(m) THEN \E st \in DroppedStates : Raised(st)
               ELSE xpc' = "close" /\ UNCHANGED <<ret, chans>>
       \/ /\ wire' = NoMsg
          /\ \E st \in DroppedStates : Raised(st)
    /\ UNCHANGED <<xcalls, driverVars, pairVars, httpVars, escVars, docVars>>

(* ws.close(); return the value picked out of the message *)
XClose ==
    /\ xpc = "close"
    /\ chans' = SetLast(Channel("closed", LastChan.sent, "close"))
    /\ ret' = IF ExtractRaises(wire) THEN None ELSE Extract(wire)
    /\ xpc' = "returned"
    /\ UNCHANGED <<wire, xcalls, driverVars, pairVars, httpVars, escVars, docVars>>

EvalNext == XCall \/ XConnect \/ XSend \/ XRecv \/ XClose

EvalSpec == Init /\ [][EvalNext]_vars

Distinct(ids) == \A j, k \in 1..Len(ids) : j # k => ids[j] # ids[k]

(* C13: the ids of the commands sent on one connection are all different,   *)
(* and what execute_js returns is the value of a reply carrying the id of   *)
(* its command: a message with another id that arrives first is not         *)
(* returned.                                                                *)
C13_ReplyMatchedById ==
    /\ \A k \in 1..Len(chans) : Distinct(chans[k].sent)
    /\ (xpc = "returned" /\ ret # None) =>
          (wire.kind = "reply" /\ wire.id = RequestId /\ ret = wire.value)

(* C14: when execute_js has returned, with a value or with None after a     *)
(* failed send, a receive timeout or a malformed message, every connection  *)
(* it opened is closed.                                                     *)
C14_ChannelsClosedAtReturn ==
    xpc = "returned" => \A k \in 1..Len(chans) : chans[k].state = "closed"

----------------------------------------------------------------------------
(* The HTTP server: main() serves with http.server.HTTPServer, whose        *)
(* serve_forever() takes one connection at a time from the listening        *)
(* socket and runs its handler (do_POST, _browser_ai) to its end in the     *)
(* serving thread before it takes the next. Requests are chat requests to   *)
(* /browser-ai; what a handler does is logged in order.                     *)

MaxRequests == 2
MaxPolls == 1

Entry(e, r) == [ev |-> e, req |-> r]

(* The requests whose handler has begun and has not written its response *)
Running == {r \in 1..nreq : stage[r] \notin {"queued", "responded"}}

(* Evaluations of check_script logged for request r *)
Polls(r) == Cardinality({k \in 1..Len(log) : log[k] = Entry("poll", r)})

(* Variant of CanAccept: a server that starts a thread per connection *)
AcceptsWhileBusy(run) == TRUE

(* HTTPServer handles a request in the serving thread: the next connection  *)
(* is taken when no handler is running                                      *)
CanAccept(run) == run = {}

(* A client posts a chat request; the listening socket queues it *)
Arrive ==
    /\ nreq < MaxRequests
    /\ nreq' = nreq + 1
    /\ backlog' = Append(backlog, nreq + 1)
    /\ stage' = Append(stage, "queued")
    /\ log' = Append(log, Entry("arrive", nreq + 1))
    /\ UNCHANGED <<driverVars, pairVars, evalVars, escVars, docVars>>

(* serve_forever(): the oldest queued connection is taken and do_POST       *)
(* calls _browser_ai                                                        *)
Accept ==
    /\ backlog # <<>>
    /\ CanAccept(Running)
    /\ backlog' = Tail(backlog)
    /\ stage' = [stage EXCEPT ![Head(backlog)] = "resolving"]
    /\ log' = Append(log, Entry("begin", Head(backlog)))
    /\ UNCHANGED <<nreq, driverVars, pairVars, evalVars, escVars, docVars>>

(* The handler writes its response and returns *)
Responds(r) ==
    /\ stage' = [stage EXCEPT ![r] = "responded"]
    /\ log' = Append(log, Entry("respond", r))

(* _browser_ai: the tab scan; no tab -> the not-found response *)
HResolve ==
    /\ \E r \in Running :
         /\ stage[r] = "resolving"
         /\ \/ Responds(r)
            \/ /\ stage' = [stage EXCEPT ![r] = "count"]
               /\ log' = Append(log, Entry("resolved", r))
    /\ UNCHANGED <<backlog, nreq, driverVars, pairVars, evalVars, escVars, docVars>>

(* _browser_ai: one execute_js of count_script, input_script, send_script *)
HEvaluate ==
    /\ \E r \in Running :
         /\ stage[r] \in {"count", "submit", "send"}
         /\ stage' = [stage EXCEPT ![r] =
                         CASE stage[r] = "count" -> "submit"
                           [] stage[r] = "submit" -> "send"
                           [] OTHER -> "poll"]
         /\ log' = Append(log, Entry(stage[r], r))
    /\ UNCHANGED <<backlog, nreq, driverVars, pairVars, evalVars, escVars, docVars>>

(* _browser_ai: one iteration of the polling loop, not the last *)
HPoll ==
    /\ \E r \in Running :
         /\ stage[r] = "poll"
         /\ Polls(r) < MaxPolls
         /\ log' = Append(log, Entry("poll", r))
    /\ UNCHANGED <<backlog, stage, nreq, driverVars, pairVars, evalVars, escVars, docVars>>

(* _browser_ai: the polling loop ends, by Success or by Timeout *)
HRespond ==
    /\ \E r \in Running :
         /\ stage[r] = "poll"
         /\ Responds(r)
    /\ UNCHANGED <<backlog, nreq, driverVars, pairVars, evalVars, escVars, docVars>>

HttpNext == Arrive \/ Accept \/ HResolve \/ HEvaluate \/ HPoll \/ HRespond

(* python-server.py is the only one of the two with an HTTP server *)
HttpInit == Init /\ impl = "srv"

HttpSpec == HttpInit /\ [][HttpNext]_vars

(* Positions of the log at which a handler acted *)
HandlerSteps == {k \in 1..Len(log) : log[k].ev # "arrive"}

(* C17: at most one chat request is being handled at a time: a request's    *)
(* handler begins only when every handler begun before it has written its   *)
(* response, and the steps of two handlers never interleave.                *)
C17_OneSendAtATime ==
    /\ Cardinality(Running) <= 1
    /\ \A k \in HandlerSteps :
          log[k].ev = "begin" =>
              \A j \in HandlerSteps :
                  j < k =>
                      \E l \in HandlerSteps :
                          j <= l /\ l < k /\ log[l] = Entry("respond", log[j].req)
    /\ \A j, k, l \in HandlerSteps :
          (j < k /\ k < l /\ log[j].req = log[l].req) => log[k].req = log[j].req

(* a second request arrives while the first is being handled, waits, and    *)
(* is handled after the first's response                                    *)
C17_Witness ==
    /\ nreq >= 2
    /\ \E j, k, l \in 1..Len(log) :
          /\ j < k /\ k < l
          /\ log[j] = Entry("begin", 1)
          /\ log[k] = Entry("arrive", 2)
          /\ log[l] = Entry("submit", 1)
    /\ \E k \in 1..Len(log) : log[k] = Entry("submit", 2)
    /\ stage[1] = "responded"

----------------------------------------------------------------------------
(* The input script: the user text is put between the single quotes of a    *)
(* string literal of the script, '<p>...</p>'. Texts are sequences of       *)
(* characters.                                                              *)

MaxTextLen == 3

Quote == "'"
Backslash == "\\"
Newline == "\n"
Return13 == "\r"
Alphabet == {"a", Quote, Backslash, Newline, Return13}
UserTexts == SeqsUpTo(Alphabet, MaxTextLen)

(* str.replace(c, r) for a pattern c of one character *)
RECURSIVE ReplaceAll(_, _, _)
ReplaceAll(s, c, r) ==
    IF s = <<>> THEN <<>>
    ELSE (IF Head(s) = c THEN r ELSE <<Head(s)>>) \o ReplaceAll(Tail(s), c, r)

(* srv: message.replace('\\', '\\\\').replace("'", "\\'").replace('\n', '\\n') *)
SrvEscape(m) ==
    ReplaceAll(ReplaceAll(ReplaceAll(m, Backslash, <<Backslash, Backslash>>),
                          Quote, <<Backslash, Quote>>),
               Newline, <<Backslash, "n">>)

(* cli: the f-string pastes {message} as it is *)
CliPaste(m) == m

(* The characters between the quotes of the literal, after "<p>" and         *)
(* before "</p>"                                                             *)
Embedded(d, m) == IF d = "cli" THEN CliPaste(m) ELSE SrvEscape(m)

(* How the page's JavaScript reads the characters of a single-quoted        *)
(* literal: a backslash takes the next character with it (\n and \r are     *)
(* the line feed and the carriage return, a backslash before a line         *)
(* terminator continues the line, before any other character of the         *)
(* alphabet it stands for that character); a bare quote ends the literal    *)
(* early, a bare line terminator or a backslash at the very end leaves it   *)
(* unterminated.                                                            *)
Decoded(ok, t) == [ok |-> ok, text |-> t]
Unescape(c) ==
    CASE c = "n" -> <<Newline>>
      [] c = "r" -> <<Return13>>
      [] c \in {Newline, Return13} -> <<>>
      [] OTHER -> <<c>>

RECURSIVE JsDecode(_)
JsDecode(cs) ==
    IF cs = <<>> THEN Decoded(TRUE, <<>>)
    ELSE IF Head(cs) = Backslash
    THEN IF Len(cs) = 1 THEN Decoded(FALSE, <<>>)
         ELSE LET rest == JsDecode(SubSeq(cs, 3, Len(cs)))
              IN  Decoded(rest.ok, Unescape(cs[2]) \o rest.text)
    ELSE IF Head(cs) \in {Quote, Newline, Return13} THEN Decoded(FALSE, <<>>)
    ELSE LET rest == JsDecode(Tail(cs))
         IN  Decoded(rest.ok, <<Head(cs)>> \o rest.text)

(* A chat request with some user text; the srv has answered 400 before      *)
(* this point when the text is empty.                                       *)
EscInit ==
    /\ DriverInit /\ EvalIdle /\ HttpIdle /\ DocIdle /\ PairIdle
    /\ userText \in UserTexts
    /\ literal = NotBuilt

(* input_script = f'''...'<p>{escaped_msg}</p>'...''' *)
BuildInput ==
    /\ ~literal.built
    /\ impl = "srv" => userText # <<>>
    /\ literal' = [built |-> TRUE, chars |-> Embedded(impl, userText)]
    /\ UNCHANGED <<userText, driverVars, pairVars, evalVars, httpVars, docVars>>

EscNext == BuildInput

EscSpec == EscInit /\ [][EscNext]_vars

(* C18: for every user text over the alphabet (single quote, backslash,     *)
(* line feed, carriage return and a plain character) the literal of the     *)
(* input script is well formed and reads back as exactly the user text.     *)
C18_LiteralDecodesToText ==
    literal.built =>
        (JsDecode(literal.chars).ok /\ JsDecode(literal.chars).text = userText)

----------------------------------------------------------------------------
(* check_script: the last assistant element of the page, its .markdown      *)
(* body, and htmlToMarkdown. A node of the page is a record: type 1 an      *)
(* element (tag in lower case, child nodes, attributes), type 3 a text      *)
(* node, any other type a node the converter ignores. Strings are           *)
(* sequences of characters and of marks such as "**"; the white space       *)
(* characters are " " and "\n".                                             *)

TextNode(t) == [type |-> 3, tag |-> "", text |-> t, kids |-> <<>>, attrs |-> NoAttrs]
ElemWith(tag, kids, attrs) ==
    [type |-> 1, tag |-> tag, text |-> <<>>, kids |-> kids, attrs |-> attrs]
Elem(tag, kids) == ElemWith(tag, kids, NoAttrs)

(* String.prototype.trim *)
IsSpace(c) == c \in {" ", "\n"}
Trim(s) ==
    LET inked == {k \in 1..Len(s) : ~IsSpace(s[k])}
    IN  IF inked = {} THEN <<>>
        ELSE SubSeq(s, CHOOSE k \in inked : \A j \in inked : k <= j,
                       CHOOSE k \in inked : \A j \in inked : k >= j)

(* `var indent = "  ".repeat(listDepth)` *)
Indent(listDepth) == [k \in 1..(2 * listDepth) |-> " "]

(* node.children: the child nodes that are elements *)
Children(node) == SelectSeq(node.kids, LAMBDA k : k.type = 1)

(* node.textContent *)
RECURSIVE TextContent(_)
TextContent(node) ==
    IF node.type = 3 THEN node.text
    ELSE IF node.kids = <<>> THEN <<>>
    ELSE TextContent(Head(node.kids))
             \o TextContent([node EXCEPT !.kids = Tail(node.kids)])

(* querySelector("code") and querySelector(".markdown"): the first          *)
(* descendant element, in document order, of that tag or of that class      *)
Matches(node, sel) ==
    /\ node.type = 1
    /\ IF sel = "code" THEN node.tag = "code"
       ELSE \E k \in 1..Len(node.attrs.cls) : node.attrs.cls[k] = "markdown"

RECURSIVE QueryIn(_, _)
QueryIn(nodes, sel) ==
    IF nodes = <<>> THEN NoElement
    ELSE IF Matches(Head(nodes), sel) THEN Head(nodes)
    ELSE IF QueryIn(Head(nodes).kids, sel) # NoElement
    THEN QueryIn(Head(nodes).kids, sel)
    ELSE QueryIn(Tail(nodes), sel)

(* className is a string: the class names, one space between them. Its     *)
(* characters are atoms: "language-" stands for these nine characters, "+" *)
(* and "-" for themselves, any other atom for a run of word characters.    *)
(* \w: a letter, a digit or the underscore                                  *)
IsWord(c) == c \notin {" ", "+", "-", "language-"}

(* (\w+): the longest run of word characters of s from position k on *)
RECURSIVE WordRun(_, _)
WordRun(s, k) ==
    IF k > Len(s) \/ ~IsWord(s[k]) THEN <<>> ELSE <<s[k]>> \o WordRun(s, k + 1)

(* className.match(/language-(\w+)/): the leftmost "language-" that a word  *)
(* character follows, and the run of word characters after it              *)
LangOf(cls) ==
    LET hits == {k \in 1..Len(cls) : cls[k] = "language-" /\ WordRun(cls, k + 1) # <<>>}
    IN  IF hits = {} THEN <<>>
        ELSE WordRun(cls, (CHOOSE k \in hits : \A j \in hits : k <= j) + 1)

(* The backquote that surrounds inline code, and the three backquotes of   *)
(* a code fence                                                             *)
CodeMark == "<backquote>"
Fence == "<3 backquotes>"

(* the marker of a list item: "- ", or num + ". " *)
Marker(ordered, num) == IF ordered THEN <<ToString(num), ".", " ">> ELSE <<"-", " ">>

(* "# " ... "###### " *)
Hashes(tag) ==
    CASE tag = "h1" -> <<"#", " ">>
      [] tag = "h2" -> <<"##", " ">>
      [] tag = "h3" -> <<"###", " ">>
      [] tag = "h4" -> <<"####", " ">>
      [] tag = "h5" -> <<"#####", " ">>
      [] OTHER -> <<"######", " ">>

RECURSIVE ProcessNode(_, _, _)
RECURSIVE ProcessAll(_, _, _)
RECURSIVE ListLines(_, _, _, _)
RECURSIVE JoinCells(_, _)

(* `children += processNode(node.childNodes[i], listDepth)` *)
ProcessAll(nodes, listDepth, parent) ==
    IF nodes = <<>> THEN <<>>
    ELSE ProcessNode(Head(nodes), listDepth, parent)
             \o ProcessAll(Tail(nodes), listDepth, parent)

(* `var num = 1`: the number of the first item of an ordered list *)
FirstNumCarried == 1 + Len(samples)
FirstNum == 1

(* `num++`, inside `if (child.tagName.toLowerCase() === "li")`: a child    *)
(* that is not an item leaves the number as it is                           *)
NextNumAnyChild(num, isItem) == num + 1
NextNum(num, isItem) == IF isItem THEN num + 1 ELSE num

(* the loops of the cases "ul" and "ol" over node.children *)
ListLines(items, listDepth, ordered, num) ==
    IF items = <<>> THEN <<>>
    ELSE IF Head(items).tag = "li"
    THEN Indent(listDepth) \o Marker(ordered, num)
             \o Trim(ProcessNode(Head(items), listDepth + 1,
                                 IF ordered THEN "ol" ELSE "ul"))
             \o <<"\n">>
             \o ListLines(Tail(items), listDepth, ordered, NextNum(num, TRUE))
    ELSE ListLines(Tail(items), listDepth, ordered, NextNum(num, FALSE))

(* `cells.join(" | ")` of the trimmed cells of a row *)
JoinCells(cells, listDepth) ==
    IF cells = <<>> THEN <<>>
    ELSE Trim(ProcessNode(Head(cells), listDepth, "tr"))
             \o (IF Tail(cells) = <<>> THEN <<>> ELSE <<" ", "|", " ">>)
             \o JoinCells(Tail(cells), listDepth)
(* processNode(node, listDepth); parent is the tag of node.parentElement *)
ProcessNode(node, listDepth, parent) ==
    IF node.type = 3 THEN node.text
    ELSE IF node.type # 1 THEN <<>>
    ELSE
      LET tag == node.tag
          children == ProcessAll(node.kids, listDepth, tag)
          codeEl == QueryIn(node.kids, "code")
      IN
      CASE tag = "p" -> children \o <<"\n", "\n">>
        [] tag = "br" -> <<"\n">>
        [] tag \in {"strong", "b"} -> <<"**">> \o children \o <<"**">>
        [] tag \in {"em", "i"} -> <<"*">> \o children \o <<"*">>
        [] tag = "code" ->
             IF parent = "pre" THEN children ELSE <<CodeMark>> \o children \o <<CodeMark>>
        [] tag = "pre" ->
             <<Fence>>
                 \o (IF codeEl # NoElement THEN LangOf(codeEl.attrs.cls) ELSE <<>>)
                 \o <<"\n">>
                 \o (IF codeEl # NoElement THEN TextContent(codeEl) ELSE children)
                 \o <<"\n", Fence, "\n", "\n">>
        [] tag \in {"h1", "h2", "h3", "h4", "h5", "h6"} ->
             Hashes(tag) \o children \o <<"\n", "\n">>
        [] tag \in {"ul", "ol"} ->
             ListLines(Children(node), listDepth, tag = "ol", FirstNum)
                 \o (IF listDepth = 0 THEN <<"\n">> ELSE <<>>)
        [] tag = "li" -> children
        [] tag = "a" -> <<"[">> \o children \o <<"](">> \o node.attrs.href \o <<")">>
        [] tag = "blockquote" ->
             <<">", " ">> \o ReplaceAll(children, "\n", <<"\n", ">", " ">>)
                 \o <<"\n", "\n">>
        [] tag = "hr" -> <<"---", "\n", "\n">>
        [] tag = "table" -> children \o <<"\n">>
        [] tag = "tr" ->
             <<"|", " ">> \o JoinCells(Children(node), listDepth) \o <<" ", "|", "\n">>
        [] tag = "img" ->
             <<"![">> \o (IF node.attrs.alt = <<>> THEN <<"image">> ELSE node.attrs.alt)
                 \o <<"](">> \o node.attrs.src \o <<")">>
        [] OTHER -> children

(* htmlToMarkdown(el); el is a child of the assistant element *)
HtmlToMarkdown(el) ==
    IF el = NoElement THEN <<>> ELSE Trim(ProcessNode(el, 0, "div"))

(* el.innerText, the text as the page renders it: the text nodes in order,  *)
(* a line break for <br> and after each block, no markdown marks            *)
RECURSIVE InnerText(_)
InnerText(node) ==
    IF node.type = 3 THEN node.text
    ELSE IF node.type # 1 THEN <<>>
    ELSE IF node.tag = "br" THEN <<"\n">>
    ELSE IF node.kids = <<>>
    THEN IF node.tag \in {"p", "li", "pre", "blockquote", "tr"} THEN <<"\n">> ELSE <<>>
    ELSE InnerText(Head(node.kids))
             \o InnerText([node EXCEPT !.kids = Tail(node.kids)])

(* srv: `var text = md ? htmlToMarkdown(md) : last.innerText` *)
SrvSampleText(last) ==
    LET md == QueryIn(last.kids, ".markdown")
    IN  IF md # NoElement THEN HtmlToMarkdown(md) ELSE InnerText(last)

(* cli: `text: md ? md.innerText : last.innerText` *)
CliSampleText(last) ==
    LET md == QueryIn(last.kids, ".markdown")
    IN  IF md # NoElement THEN InnerText(md) ELSE InnerText(last)

----------------------------------------------------------------------------
(* The assistant elements the sample is taken from *)

MaxItems == 3
MaxSamples == 2

TextA == TextNode(<<"a">>)
TextB == TextNode(<<"b">>)
LineBreak == TextNode(<<"\n">>)
Li(kids) == Elem("li", kids)

(* Lists found inside a list item; the second has a list inside its item *)
InnerLists ==
    {Elem("ul", <<Li(<<TextA>>), Li(<<TextB>>)>>),
     Elem("ol", <<Li(<<TextB, LineBreak, Elem("ul", <<Li(<<TextA>>)>>)>>)>>)}

(* List items: text alone; text and a list, with and without white space   *)
(* between them; a paragraph and a list; a list alone                       *)
ListItems ==
    {Li(<<TextA>>), Li(<<Elem("p", <<TextA>>), Elem("ul", <<Li(<<TextB>>)>>)>>),
     Li(<<Elem("ul", <<Li(<<TextB>>)>>)>>)}
        \cup {Li(<<TextA, L>>) : L \in InnerLists}
        \cup {Li(<<TextA, LineBreak, L>>) : L \in InnerLists}

TopLists ==
    {Elem(t, items) : t \in {"ul", "ol"},
                      items \in SeqsUpTo(ListItems, MaxItems) \ {<<>>}}

(* Bodies that are not lists: a paragraph with strong text, a code block    *)
(* with a language class, a link, plain text in a div                       *)
OtherBodies ==
    {Elem("p", <<TextNode(<<"a", " ">>), Elem("strong", <<TextB>>)>>),
     Elem("pre", <<ElemWith("code", <<TextA>>,
                            [NoAttrs EXCEPT !.cls = <<"language-", "py">>])>>),
     ElemWith("a", <<TextA>>, [NoAttrs EXCEPT !.href = <<"u">>]),
     Elem("div", <<TextA>>)}

(* Children of an ordered list: an item; an item with an ordered list in   *)
(* it, which has a child that is not an item; an element that is not an    *)
(* item; the white space between two items                                  *)
OlKids ==
    {Li(<<TextA>>),
     Li(<<TextB, LineBreak,
          Elem("ol", <<Li(<<TextA>>), Elem("div", <<TextB>>), Li(<<TextB>>)>>)>>),
     Elem("div", <<TextA>>),
     LineBreak}

OrderedLists == {Elem("ol", kids) : kids \in SeqsUpTo(OlKids, MaxItems) \ {<<>>}}

(* Two ordered lists in one body *)
TwoLists ==
    LET short == {l \in OrderedLists : Len(l.kids) < MaxItems}
    IN  {Elem("div", <<x, y>>) : x \in short, y \in short}

(* className of the code element of a code block *)
CodeClasses ==
    {<<>>, <<"language-", "py">>, <<"hljs", " ", "language-", "py">>,
     <<"language-", "c", "+", "+">>, <<"language-", "shell", "-", "session">>}

(* Child nodes of the code element: text alone; highlighted text, with      *)
(* emphasis, inline code and a link                                         *)
CodeContents ==
    {<<TextNode(<<"a", "\n">>)>>,
     <<Elem("span", <<TextA>>), TextNode(<<" ">>), Elem("em", <<TextB>>),
       TextNode(<<"\n">>), Elem("code", <<TextA>>),
       ElemWith("a", <<TextB>>, [NoAttrs EXCEPT !.href = <<"u">>])>>}

(* Code blocks: the code element alone in the pre, or after a header; and  *)
(* a pre without a code element                                             *)
CodeBlocks ==
    {Elem("pre", head \o <<ElemWith("code", c, [NoAttrs EXCEPT !.cls = cls])>>) :
         head \in {<<>>, <<Elem("div", <<TextB>>)>>},
         c \in CodeContents, cls \in CodeClasses}
        \cup {Elem("pre", <<Elem("b", <<TextA>>)>>)}

Bodies == TopLists \cup OtherBodies \cup OrderedLists \cup TwoLists \cup CodeBlocks

(* The assistant element: the body in a .markdown div, or directly *)
Assistant(wrapped, body) ==
    Elem("div", <<IF wrapped
                  THEN ElemWith("div", <<body>>,
                                [NoAttrs EXCEPT !.cls = <<"markdown">>])
                  ELSE body>>)

(* NoElement: the page has no assistant element *)
Elements == {NoElement} \cup {Assistant(w, b) : w \in BOOLEAN, b \in Bodies}

DocInit ==
    /\ DriverInit /\ EvalIdle /\ HttpIdle /\ EscIdle /\ PairIdle
    /\ dom \in Elements
    /\ sampled = NotSampled
    /\ samples = <<>>

(* The text check_script returns for the element *)
SampleText(last) ==
    IF last = NoElement THEN <<>>
    ELSE IF impl = "cli" THEN CliSampleText(last)
    ELSE SrvSampleText(last)

(* One evaluation of check_script, one per tick of the loop: the text of   *)
(* the sample. The script reads the page and writes nothing to it.          *)
TakeSample ==
    /\ Len(samples) < MaxSamples
    /\ sampled' = [taken |-> TRUE, text |-> SampleText(dom)]
    /\ samples' = Append(samples, SampleText(dom))
    /\ UNCHANGED <<dom, driverVars, pairVars, evalVars, httpVars, escVars>>

DocNext == TakeSample

DocSpec == DocInit /\ [][DocNext]_vars

(* The body of the assistant element: its .markdown descendant if any,      *)
(* else the element                                                         *)
BodyOf(last) ==
    IF QueryIn(last.kids, ".markdown") # NoElement
    THEN QueryIn(last.kids, ".markdown")
    ELSE last

(* C19: in both drivers and whatever the shape of the assistant element,    *)
(* the text of a sample is the converter's output for the element's body,   *)
(* not the text as rendered.                                                *)
C19_SampleIsConverted ==
    (sampled.taken /\ dom # NoElement) =>
        sampled.text = HtmlToMarkdown(BodyOf(dom))

(* The lines of a text that are not empty *)
RECURSIVE Lines(_, _)
Lines(s, cur) ==
    IF s = <<>> THEN (IF cur = <<>> THEN <<>> ELSE <<cur>>)
    ELSE IF Head(s) = "\n"
    THEN (IF cur = <<>> THEN <<>> ELSE <<cur>>) \o Lines(Tail(s), <<>>)
    ELSE Lines(Tail(s), Append(cur, Head(s)))

(* The items of a list and of the lists inside its items, in document       *)
(* order, each with its nesting depth and its marker                        *)
RECURSIVE ItemsPre(_, _, _, _)
RECURSIVE NestedItems(_, _)
ItemsPre(kids, d, ordered, num) ==
    IF kids = <<>> THEN <<>>
    ELSE IF Head(kids).type = 1 /\ Head(kids).tag = "li"
    THEN <<[depth |-> d, marker |-> Marker(ordered, num)]>>
             \o NestedItems(Head(kids).kids, d + 1)
             \o ItemsPre(Tail(kids), d, ordered, num + 1)
    ELSE ItemsPre(Tail(kids), d, ordered, num)
NestedItems(kids, d) ==
    IF kids = <<>> THEN <<>>
    ELSE (IF Head(kids).tag \in {"ul", "ol"}
          THEN ItemsPre(Head(kids).kids, d, Head(kids).tag = "ol", 1)
          ELSE <<>>)
             \o NestedItems(Tail(kids), d)

StartsWith(s, p) == Len(s) >= Len(p) /\ SubSeq(s, 1, Len(p)) = p

(* C20: in the converter's output for a list, every item, of the list and   *)
(* of the lists nested in its items, has a line of its own, which begins    *)
(* with two spaces per nesting depth of the item's list and then the        *)
(* item's marker: no indentation at depth 0, two more spaces for the items  *)
(* of a list inside an item.                                                *)
C20_ItemsOnOwnLines ==
    (sampled.taken /\ impl = "srv" /\ dom # NoElement
        /\ QueryIn(dom.kids, ".markdown") # NoElement
        /\ BodyOf(dom).kids[1].tag \in {"ul", "ol"}) =>
        LET list == BodyOf(dom).kids[1]
            items == ItemsPre(list.kids, 0, list.tag = "ol", 1)
            ls == Lines(sampled.text, <<>>)
        IN  /\ Len(ls) = Len(items)
            /\ \A k \in 1..Len(items) :
                  StartsWith(ls[k], Indent(items[k].depth) \o items[k].marker)


(* The numbers of the ordered-list markers of a text, in order: each        *)
(* number that ". " follows                                                 *)
RECURSIVE MarkerNums(_)
MarkerNums(s) ==
    IF Len(s) < 3 THEN <<>>
    ELSE IF s[1] \in {ToString(n) : n \in 1..(MaxItems + 1)} /\ s[2] = "." /\ s[3] = " "
    THEN <<s[1]>> \o MarkerNums(Tail(s))
    ELSE MarkerNums(Tail(s))

(* The numbers the items of the ordered lists of a tree are to carry, in    *)
(* document order: 1, 2, 3... within each list over its children that are  *)
(* items; list names the list the nodes are children of, if any             *)
RECURSIVE ItemNums(_, _, _)
ItemNums(nodes, list, num) ==
    IF nodes = <<>> THEN <<>>
    ELSE
      LET n == Head(nodes)
      IN  IF list # ""
          THEN IF n.type = 1 /\ n.tag = "li"
               THEN (IF list = "ol" THEN <<ToString(num)>> ELSE <<>>)
                        \o ItemNums(n.kids, "", 1)
                        \o ItemNums(Tail(nodes), list, num + 1)
               ELSE ItemNums(Tail(nodes), list, num)
          ELSE (IF n.type = 1
                THEN ItemNums(n.kids, IF n.tag \in {"ul", "ol"} THEN n.tag ELSE "", 1)
                ELSE <<>>)
                   \o ItemNums(Tail(nodes), "", 1)

IsList(b) == b.tag \in {"ul", "ol"} \/ b \in TwoLists

(* C21: the items of every ordered list are numbered 1, 2, 3... in order,   *)
(* each list starting again at 1, a list inside an item and a second list   *)
(* of the same body included; a child of the list that is not an item gets  *)
(* no line and uses no number.                                              *)
C21_ItemsNumberedPerList ==
    (sampled.taken /\ impl = "srv" /\ dom # NoElement
        /\ QueryIn(dom.kids, ".markdown") # NoElement
        /\ IsList(BodyOf(dom).kids[1])) =>
        MarkerNums(sampled.text) = ItemNums(BodyOf(dom).kids, "", 1)

(* Two lists in one body. The first has a list inside its first item, and  *)
(* that list an element that is not an item between its two items; the      *)
(* second begins with an element that is not an item: 1 (1 2) 2, then 1     *)
C21_Witness ==
    /\ sampled.taken /\ impl = "srv" /\ dom # NoElement
    /\ QueryIn(dom.kids, ".markdown") # NoElement
    /\ BodyOf(dom).kids[1] \in TwoLists
    /\ Len(BodyOf(dom).kids[1].kids[1].kids[1].kids) = 3
    /\ BodyOf(dom).kids[1].kids[2].kids[1].tag = "div"
    /\ MarkerNums(sampled.text) = <<"1", "1", "2", "2", "1">>


(* The characters of s from position k up to the next space *)
RECURSIVE UpToSpace(_, _)
UpToSpace(s, k) ==
    IF k > Len(s) \/ s[k] = " " THEN <<>> ELSE <<s[k]>> \o UpToSpace(s, k + 1)

(* The <name> of the first class name of the form language-<name>, or the  *)
(* empty string                                                             *)
ClassLang(cls) ==
    LET hits == {k \in 1..Len(cls) :
                    /\ cls[k] = "language-"
                    /\ (k = 1 \/ cls[k - 1] = " ")
                    /\ UpToSpace(cls, k + 1) # <<>>}
    IN  IF hits = {} THEN <<>>
        ELSE UpToSpace(cls, (CHOOSE k \in hits : \A j \in hits : k <= j) + 1)

IsCodeBlock(b) == b.tag = "pre" /\ QueryIn(b.kids, "code") # NoElement

(* The fenced block for a language name and a code text, as the sample      *)
(* holds it: the converter's output is trimmed, and the fence is not white  *)
(* space                                                                    *)
Fenced(lang, code) == <<Fence>> \o lang \o <<"\n">> \o code \o <<"\n", Fence>>

(* C22: a code block is converted into a fence of three backquotes, the     *)
(* language name of the language-<name> class of its code element if it     *)
(* has one and nothing otherwise, a line feed, the text of the code         *)
(* element as it is, whatever elements it holds, a line feed and the        *)
(* closing fence.                                                           *)
C22_CodeBlockFenced ==
    (sampled.taken /\ impl = "srv" /\ dom # NoElement
        /\ QueryIn(dom.kids, ".markdown") # NoElement
        /\ IsCodeBlock(BodyOf(dom).kids[1])) =>
        LET codeEl == QueryIn(BodyOf(dom).kids[1].kids, "code")
        IN  sampled.text = Fenced(ClassLang(codeEl.attrs.cls), TextContent(codeEl))

(* The same for the code elements whose language name has word characters   *)
(* only                                                                     *)
CodeBlockFencedForWords ==
    (sampled.taken /\ impl = "srv" /\ dom # NoElement
        /\ QueryIn(dom.kids, ".markdown") # NoElement
        /\ IsCodeBlock(BodyOf(dom).kids[1])) =>
        LET codeEl == QueryIn(BodyOf(dom).kids[1].kids, "code")
        IN  (\A k \in 1..Len(codeEl.attrs.cls) : codeEl.attrs.cls[k] \notin {"+", "-"})
                => sampled.text = Fenced(ClassLang(codeEl.attrs.cls), TextContent(codeEl))


C24_SuccessIsOfNewReply ==
    (pc = "done" /\ result.outcome = "Success") =>
        (value.kind = "sample" /\ value.n > pageCount)


(* The same when the count query returned a count *)
SuccessIsOfNewReplyWhenCounted ==
    (pc = "done" /\ result.outcome = "Success" /\ countRes.kind \in {"num", "msgs"}) =>
        (value.kind = "sample" /\ value.n > pageCount)


----------------------------------------------------------------------------
(* Properties of the stabilization counter *)

(* The last tick of the call sampled a counted sample, an uncounted one *)
LastCounted == evals > 0 /\ pc \in {"poll", "done"} /\ IsNewReply(value)
LastUncounted ==
    /\ evals > 0 /\ pc \in {"poll", "done"}
    /\ value.kind = "sample" /\ old_count.kind = "num" /\ value.n <= old_count.n

(* The last tick left the counter and the baseline as they were *)
TickLeftLoopAlone ==
    /\ stable_count = before.stable_count
    /\ last_text = before.last_text
    /\ last_images = before.last_images

(* C25: when a tick begins stable_count is 0, 1 or 2; a tick raises it only *)
(* by one and only on a counted sample whose text is not empty and equals   *)
(* the baseline text and (srv) whose image list equals the baseline list;   *)
(* the call returns Success exactly at the tick that raises it to 3.        *)
C25_CounterDiscipline ==
    /\ (pc = "poll") => stable_count \in 0..2
    /\ (evals > 0 /\ pc \in {"poll", "done"} /\ stable_count > before.stable_count) =>
          /\ stable_count = before.stable_count + 1
          /\ LastCounted
          /\ value.text = before.last_text /\ value.text # EmptyText
          /\ (impl = "srv" => value.images = before.last_images)
    /\ (result.outcome = "Success") <=>
          (pc = "done" /\ evals > 0 /\ stable_count = 3 /\ before.stable_count = 2)

C25_Witness ==
    /\ pc = "done" /\ result.outcome = "Success" /\ impl = "srv"
    /\ stable_count = 3 /\ before.stable_count = 2
    /\ value.images # <<>> /\ value.images = before.last_images

(* C26: a tick whose sample counts no more assistant messages than the      *)
(* pre-send count leaves stable_count and the baseline as they were and     *)
(* the call in the loop, which after it can end only for want of ticks.     *)
C26_UncountedTickChangesNothing ==
    LastUncounted =>
        /\ TickLeftLoopAlone
        /\ \/ pc = "poll"
           \/ result.outcome = "Timeout" /\ i = 2 * timeout

(* An uncounted sample with another text, after two repeats *)
C26_Witness ==
    /\ LastUncounted /\ pc = "poll"
    /\ before.stable_count = 2 /\ stable_count = 2 /\ runLen = 3
    /\ value.text # last_text /\ value.text # EmptyText
    /\ i < 2 * timeout

(* C27: a tick whose evaluation fails leaves stable_count and the baseline  *)
(* as they were and is one of the 2 * timeout ticks: the repeats counted    *)
(* before it still count after it.                                          *)
C27_FailedTickChangesNothing ==
    /\ (pc = "poll") => i = evals
    /\ (evals > 0 /\ pc \in {"poll", "done"} /\ value = None) =>
          /\ TickLeftLoopAlone
          /\ i = evals
          /\ \/ pc = "poll"
             \/ result.outcome = "Timeout" /\ i = 2 * timeout

(* A failed evaluation after two repeats: one more repeat gives Success *)
C27_Witness ==
    /\ pc = "poll" /\ value = None /\ evals = 4
    /\ before.stable_count = 2 /\ stable_count = 2 /\ runLen = 3
    /\ last_text = prevCounted.text
    /\ i < 2 * timeout

(* C28: a Success result never has an empty text; while the baseline text   *)
(* is empty stable_count is 0, and a call whose last sample is counted and  *)
(* has an empty text has not ended, or has ended in Timeout.                *)
C28_NoEmptySuccess ==
    /\ (result.outcome = "Success") =>
          (result.text # EmptyText /\ value.text # EmptyText
              /\ prevCounted.text # EmptyText)
    /\ (pc \in {"poll", "done"} /\ evals > 0 /\ last_text = EmptyText) =>
          stable_count = 0
    /\ (LastCounted /\ value.text = EmptyText) =>
          /\ stable_count = 0
          /\ \/ pc = "poll"
             \/ result.outcome = "Timeout" /\ i = 2 * timeout

(* A reply of images only, the same at four ticks or more, ends in Timeout *)
C28_Witness ==
    /\ pc = "done" /\ impl = "srv" /\ result.outcome = "Timeout"
    /\ prevCounted.some /\ prevCounted.text = EmptyText /\ prevCounted.images # <<>>
    /\ runLen >= 4 /\ LastCounted


----------------------------------------------------------------------------
(* Properties of the call as a whole *)

(* The place of a position in the order of a call: Idle, Resolving, the    *)
(* count query and Submitting, Sending, Polling, the end                    *)
Ord(p) ==
    CASE p = "idle" -> 0
      [] p = "resolving" -> 1
      [] p \in {"count", "getmsgs"} -> 2
      [] p = "submit" -> 3
      [] p = "send" -> 4
      [] p = "poll" -> 5
      [] OTHER -> 6

(* C29: a call moves forward only: every change of position is to a later   *)
(* one in the order Idle, Resolving, Submitting, Sending, Polling, end,     *)
(* until the caller has the result. Each script is evaluated once and in    *)
(* order: the count query, then the input script, then the send script,     *)
(* then the extraction script once per tick; after the end nothing is       *)
(* evaluated.                                                               *)
C29_StepsInOrder ==
    /\ [][pc' # pc => (Ord(pc') > Ord(pc) \/ (pc = "done" /\ pc' = "idle"))]_vars
    /\ [][jsCalls' # jsCalls =>
             \/ jsCalls' = jsCalls + 1 /\ pc \notin {"idle", "resolving", "done"}
             \/ jsCalls' = 0 /\ pc = "done" /\ pc' = "idle"]_vars
    /\ [](/\ (pc \in {"idle", "resolving"}) => jsCalls = 0
          /\ (pc \in {"count", "getmsgs"}) => jsCalls = 0
          /\ (pc = "submit") => (jsCalls = 1 /\ evals = 0)
          /\ (pc = "send") => (jsCalls = 2 /\ evals = 0)
          /\ (pc = "poll") => jsCalls = 3 + evals
          /\ (evals > 0) => (action = "chat" /\ jsCalls = 3 + evals)
          /\ (pc = "done") => ~ENABLED Step)

C29_Witness ==
    /\ pc = "done" /\ action = "chat" /\ calls = 2 /\ impl = "cli"
    /\ result.outcome = "Timeout"
    /\ jsCalls = 3 + evals /\ evals = 2 * timeout /\ evals >= 2

(* C30: each send begins its polling with an empty baseline, stable_count   *)
(* 0 and no tick used, whatever an earlier send on the same driver left in  *)
(* the loop's variables; a Success needs four samples of its own call.      *)
C30_LoopStartsAfresh ==
    /\ (pc = "poll" /\ evals = 0) =>
          /\ last_text = EmptyText /\ stable_count = 0 /\ i = 0
          /\ (impl = "srv" => last_images = <<>>)
    /\ (result.outcome = "Success") => (evals >= 4 /\ runLen = 4)

(* The second send of a driver at the start of its polling *)
C30_Witness ==
    /\ calls = 2 /\ pc = "poll" /\ evals = 0
    /\ stable_count = 0 /\ last_text = EmptyText /\ timeout >= 2


----------------------------------------------------------------------------
(* The two polling loops side by side: BrowserAI.send_message from          *)
(* `last_text = ""` on, and the chat action of _browser_ai from             *)
(* `last_text = ""` on, with the same pre-send count, the same number of    *)
(* iterations and the same value returned by execute_js at each iteration.  *)
(* A loop is a record of its locals, its position and what it returned.     *)

(* The locals before the first iteration *)
LoopAtStart ==
    [pc |-> "poll", i |-> 0, last_text |-> LoopStart.last_text,
     last_images |-> LoopStart.last_images, stable_count |-> LoopStart.stable_count,
     result |-> NoResult]

(* cli: one iteration of the loop on the value v *)
CliLoopStep(s, v, old) ==
    LET t == [s EXCEPT !.i = s.i + 1]
    IN  IF SkipsTick(v) THEN t
        ELSE IF v.kind # "sample"
        THEN [t EXCEPT !.pc = "done", !.result = Faulted("cli")]
        ELSE IF ~Counted(v.n, old) THEN t
        ELSE IF TextStable(v.text, s.last_text)
        THEN IF Bump(s.stable_count) >= StableThreshold
             THEN [t EXCEPT !.stable_count = Bump(s.stable_count), !.pc = "done",
                            !.result = Res("Success", v.text, <<>>, "")]
             ELSE [t EXCEPT !.stable_count = Bump(s.stable_count)]
        ELSE [t EXCEPT !.stable_count = 0, !.last_text = v.text]

(* srv: one iteration of the loop on the value v *)
SrvLoopStep(s, v, old) ==
    LET t == [s EXCEPT !.i = s.i + 1]
    IN  IF SkipsTick(v) THEN t
        ELSE IF v.kind # "sample"
        THEN [t EXCEPT !.pc = "done", !.result = Faulted("srv")]
        ELSE IF ~Counted(v.n, old) THEN t
        ELSE IF TextStable(v.text, s.last_text) /\ ImagesStable(v.images, s.last_images)
        THEN IF Bump(s.stable_count) >= StableThreshold
             THEN [t EXCEPT !.stable_count = Bump(s.stable_count), !.pc = "done",
                            !.result = Res("Success", WithImages(v.text, v.images),
                                           v.images, "")]
             ELSE [t EXCEPT !.stable_count = Bump(s.stable_count)]
        ELSE [t EXCEPT !.stable_count = 0, !.last_text = v.text,
                       !.last_images = v.images]

(* Variant of CliLoopEnd that returns no partial text *)
CliLoopEndNoPartial(s) ==
    [s EXCEPT !.pc = "done", !.result = CliTimeoutResult(EmptyText)]

(* cli: the statement after the loop *)
CliLoopEnd(s) == [s EXCEPT !.pc = "done", !.result = CliTimeoutResult(s.last_text)]

(* srv: the statements after the loop *)
SrvLoopEnd(s) ==
    [s EXCEPT !.pc = "done", !.result = SrvTimeoutResult(s.last_text, s.last_images)]

(* The poll results given to both loops: a failed evaluation, a value of    *)
(* another shape, a sample with an empty image list                         *)
PairReplies == CheckReplies("cli")

LoopInit ==
    /\ DriverInit /\ EvalIdle /\ HttpIdle /\ EscIdle /\ DocIdle
    /\ \E n \in Counts, t \in 0..MaxTimeout :
         pair = [on |-> TRUE, old |-> n, budget |-> TickBudget(t),
                 cli |-> LoopAtStart, srv |-> LoopAtStart]

Looping(s) == s.pc = "poll" /\ s.i < pair.budget
RunOut(s) == s.pc = "poll" /\ s.i >= pair.budget

(* One tick: each loop that has iterations left takes one on the same value *)
PairTick ==
    /\ pair.on
    /\ Looping(pair.cli) \/ Looping(pair.srv)
    /\ \E v \in PairReplies :
         pair' = [pair EXCEPT
                    !.cli = IF Looping(pair.cli)
                            THEN CliLoopStep(pair.cli, v, pair.old) ELSE pair.cli,
                    !.srv = IF Looping(pair.srv)
                            THEN SrvLoopStep(pair.srv, v, pair.old) ELSE pair.srv]
    /\ UNCHANGED <<driverVars, evalVars, httpVars, escVars, docVars>>

(* Each loop that has run out of iterations returns *)
PairTimeout ==
    /\ pair.on
    /\ RunOut(pair.cli) \/ RunOut(pair.srv)
    /\ pair' = [pair EXCEPT
                  !.cli = IF RunOut(pair.cli) THEN CliLoopEnd(pair.cli) ELSE pair.cli,
                  !.srv = IF RunOut(pair.srv) THEN SrvLoopEnd(pair.srv) ELSE pair.srv]
    /\ UNCHANGED <<driverVars, evalVars, httpVars, escVars, docVars>>

LoopNext == PairTick \/ PairTimeout

LoopSpec == LoopInit /\ [][LoopNext]_vars

(* C31: given the same pre-send count, the same number of ticks and the     *)
(* same poll results, all with an empty image list, the two loops end at    *)
(* the same tick, and when either ends in Success or in Timeout the other   *)
(* ends in the same outcome with the same text; until then they hold the    *)
(* same baseline text and the same stable_count.                            *)
C31_LoopsAgree ==
    pair.on =>
        /\ pair.cli.pc = pair.srv.pc
        /\ pair.cli.i = pair.srv.i
        /\ pair.cli.last_text = pair.srv.last_text
        /\ pair.cli.stable_count = pair.srv.stable_count
        /\ ({pair.cli.result.outcome, pair.srv.result.outcome}
                \cap {"Success", "Timeout"} # {}) =>
              /\ pair.cli.result.outcome = pair.srv.result.outcome
              /\ pair.cli.result.text = pair.srv.result.text

(* Both loops returned Success at the fifth tick or later, after a tick     *)
(* that was skipped or a change of text                                     *)
C31_Witness ==
    /\ pair.on /\ pair.old = 1
    /\ pair.cli.pc = "done" /\ pair.srv.pc = "done"
    /\ pair.cli.result.outcome = "Success" /\ pair.srv.result.outcome = "Success"
    /\ pair.cli.i >= 5 /\ pair.cli.i = pair.srv.i
    /\ pair.srv.result.text = <<"b">>

(* Both loops ran out of ticks with a partial text *)
LoopsTimedOutWitness ==
    /\ pair.on
    /\ pair.cli.result.outcome = "Timeout" /\ pair.srv.result.outcome = "Timeout"
    /\ pair.cli.result.text # EmptyText /\ pair.cli.i = pair.budget /\ pair.budget > 0


(* The loop steps above are the ticks of the driver: in a call of the       *)
(* driver, the locals after a tick are those the step gives from the        *)
(* locals before it                                                         *)
TickIsLoopStep ==
    (evals > 0 /\ pc \in {"poll", "done"} /\ old_count.kind = "num"
        /\ result.outcome # "Timeout") =>
        LET s0 == [pc |-> "poll", i |-> i - 1, last_text |-> before.last_text,
                   last_images |-> before.last_images,
                   stable_count |-> before.stable_count, result |-> NoResult]
            s1 == IF impl = "cli" THEN CliLoopStep(s0, value, old_count.n)
                  ELSE SrvLoopStep(s0, value, old_count.n)
        IN  /\ s1.pc = pc /\ s1.i = i /\ s1.result = result
            /\ s1.last_text = last_text /\ s1.stable_count = stable_count
            /\ s1.last_images = last_images

====
